---- MODULE Spec2Model ----
(***************************************************************************)
(* Model of the request/transport core of the go-eventbrite client         *)
(* (src/category.go, second half: NewClient, the token-bucket rate         *)
(* limiter, the get / post / delete executors, the JSON decoding of        *)
(* getJSON / postJSON / deleteJSON and the query flattener toValues).      *)
(*                                                                         *)
(* Time is counted in replenishment intervals (time.Second / N), so the    *)
(* refill goroutine's initial time.Sleep(time.Second) lasts N units and    *)
(* the ticker's period is 1 unit.  Timers never fire early; they may fire  *)
(* late (the clock may run on before a due timer is served).               *)
(***************************************************************************)
EXTENDS Integers, Sequences, FiniteSets, TLC

\* ---------------------------------------------------------------- bounds
MaxRate == 2
MaxCalls == 3
MaxTime == 3

\* ------------------------------------------------------ program constants
defaultRequestsPerSecond == 5

Calls == 1..MaxCalls

\* Strings that are concatenated are sequences of atoms; "" is <<>>.
EmptyString == <<>>
DefaultBaseURL == <<"https://www.eventbriteapi.com/v3">>
TestBaseURL == <<"http://test.local">>
\* The base URL after the options: the default of NewClient, or the one a
\* WithBaseURL option sets, the empty string included.
BaseURLs == {EmptyString, DefaultBaseURL, TestBaseURL}
Tokens == {"", "abc123"}
\* The transport: the http.Client of NewClient's defaults.
DefaultHTTPClient == "http.Client{}"
\* Paths as the wrappers build them: "/ticket_groups/" + id, and
\* fmt.Sprintf("/webhooks/%s/", id) with another resource's name.
TicketGroupPath == <<"/ticket_groups/", "7">>
WidgetPath == <<"/widgets/", "42", "/">>
Paths == {TicketGroupPath, WidgetPath}
ExpandValue == "venue,category,subcategories"

MethodGet == "GET"
MethodPost == "POST"
MethodDelete == "DELETE"
Verbs == {MethodGet, MethodPost, MethodDelete}

\* ------------------------------------------------------------- url.Values
EmptyValues == [k \in {} |-> ""]
ValuesSet(q, k, v) == [x \in (DOMAIN q) \cup {k} |-> IF x = k THEN v ELSE q[x]]

\* Request descriptors (apiReq interface{}): nil, an url.Values map (values),
\* or a pointer to a struct with a field tagged validate:"required" (Name),
\* an untagged one (Status) and the further fields of more, each with its
\* json tag, its Go type and its value as reflection reads it.
NilReq == [kind |-> "nil", Name |-> "", Status |-> "", values |-> EmptyValues,
           more |-> <<>>]
ValuesReq == [kind |-> "values", Name |-> "", Status |-> "", values |-> EmptyValues,
              more |-> <<>>]
StructReqs ==
    {[kind |-> "struct", Name |-> n, Status |-> "", values |-> EmptyValues,
      more |-> <<>>] :
        n \in {"", "Party"}}
ApiReqs == {NilReq, ValuesReq} \cup StructReqs

\* Errors a call can return (the error value's kind and, for the API error
\* envelope of types.go, its three fields).
Err(k) == [kind |-> k, code |-> "", description |-> "", status |-> 0]
NoErr == Err("nil")
ErrCanceled == Err("context canceled")
ErrTokenMissing == Err("eventbrite: Token missing")
ErrValidation == Err("validator.ValidationErrors")
ErrInvalidValidation == Err("validator.InvalidValidationError")
ErrTransport == Err("transport")
ErrDecode == Err("json decode")

VARIABLES
    constructed,        \* NewClient has returned
    token,              \* Client.token
    httpClient,         \* Client.httpClient
    baseURL,            \* Client.baseURL
    requestsPerSecond,  \* Client.requestsPerSecond
    ratePerSecond,      \* Client.ratePerSecond: the permit channel
    recvq,              \* calls parked in the select of awaitRateLimiter
    refill,             \* the refill goroutine and its ticker
    refills,            \* permits sent by the refill goroutine so far
    now,                \* time since construction, in intervals
    call,               \* per call: position, inputs and outcome
    flat                \* a descriptor on its way through the flattener

vars == <<constructed, token, httpClient, baseURL, requestsPerSecond,
          ratePerSecond, recvq, refill, refills, now, call, flat>>

\* ------------------------------------------------------- the permit channel
\* A nil channel, and a made channel of capacity cap holding len permits.
NilChan == [isNil |-> TRUE, cap |-> 0, len |-> 0]

\* Mutant of MakeChan: a buffer one slot too large.
MakeChanOversized(n) == [isNil |-> FALSE, cap |-> n + 1, len |-> 0]

MakeChan(n) == [isNil |-> FALSE, cap |-> n, len |-> 0]

\* Mutant of ChanRecv: the permit is read but left in the buffer.
ChanRecvKeeps(ch) == ch

\* ch <- 1 on a channel with room in its buffer.
ChanSend(ch) == [ch EXCEPT !.len = ch.len + 1]

\* <-ch on a channel with a buffered permit.
ChanRecv(ch) == [ch EXCEPT !.len = ch.len - 1]

\* The priming loop of NewClient: i sends into the fresh channel.
RECURSIVE Prime(_, _)
Prime(ch, i) == IF i = 0 THEN ch ELSE Prime(ChanSend(ch), i - 1)

\* --------------------------------------------------------------- the state
\* No response has reached the call.
NoResponse == [status |-> 0, body |-> [valid |-> FALSE, obj |-> EmptyValues]]

IdleCall == [pc |-> "idle", verb |-> MethodGet, arg |-> NilReq, apiReq |-> NilReq,
             path |-> EmptyString, ctxDone |-> FALSE, err |-> NoErr,
             acquired |-> 0, parkedAt |-> -1, suspended |-> FALSE, reqs |-> <<>>,
             resp |-> NoResponse, decoded |-> FALSE, result |-> EmptyValues]

NoRefill == [pc |-> "none", when |-> 0, tick |-> 0]

\* No descriptor is on its way.
NoFlat == [stage |-> "none", apiReq |-> NilReq, values |-> EmptyValues,
           rawQuery |-> <<>>, parsed |-> EmptyValues]

Init ==
    /\ constructed = FALSE
    /\ token = ""
    /\ httpClient = ""
    /\ baseURL = EmptyString
    /\ requestsPerSecond = 0
    /\ ratePerSecond = NilChan
    /\ recvq = <<>>
    /\ refill = NoRefill
    /\ refills = 0
    /\ now = 0
    /\ call = [c \in Calls |-> IdleCall]
    /\ flat = NoFlat

\* ---------------------------------------------------------------- NewClient
RateOptions == (-1..MaxRate) \cup {defaultRequestsPerSecond}

\* Mutant of NewClient: the refill goroutine starts ticking without the
\* initial one-second sleep.
NewClientNoSleep(tok, base, rps) ==
    /\ ~constructed
    /\ constructed' = TRUE
    /\ token' = tok
    /\ httpClient' = DefaultHTTPClient
    /\ baseURL' = base
    /\ requestsPerSecond' = rps
    /\ IF rps > 0
       THEN /\ ratePerSecond' = Prime(MakeChan(rps), rps)
            /\ refill' = [pc |-> "range", when |-> now + 1, tick |-> 0]
       ELSE /\ ratePerSecond' = NilChan
            /\ refill' = NoRefill
    /\ UNCHANGED <<recvq, refills, now, call, flat>>

\* Mutant of NewClient: the limiter is built for N >= 0.
NewClientZeroLimited(tok, base, rps) ==
    /\ ~constructed
    /\ constructed' = TRUE
    /\ token' = tok
    /\ httpClient' = DefaultHTTPClient
    /\ baseURL' = base
    /\ requestsPerSecond' = rps
    /\ IF rps >= 0
       THEN /\ ratePerSecond' = Prime(MakeChan(rps), rps)
            /\ refill' = [pc |-> "sleep", when |-> now + rps, tick |-> 0]
       ELSE /\ ratePerSecond' = NilChan
            /\ refill' = NoRefill
    /\ UNCHANGED <<recvq, refills, now, call, flat>>

\* NewClient(options...): the defaults, then the options, then the limiter:
\* a channel of capacity N primed with N permits and the refill goroutine,
\* which first sleeps one second (N intervals).
NewClient(tok, base, rps) ==
    /\ ~constructed
    /\ constructed' = TRUE
    /\ token' = tok
    /\ httpClient' = DefaultHTTPClient
    /\ baseURL' = base
    /\ requestsPerSecond' = rps
    /\ IF rps > 0
       THEN /\ ratePerSecond' = Prime(MakeChan(rps), rps)
            /\ refill' = [pc |-> "sleep", when |-> now + rps, tick |-> 0]
       ELSE /\ ratePerSecond' = NilChan
            /\ refill' = NoRefill
    /\ UNCHANGED <<recvq, refills, now, call, flat>>

\* ------------------------------------------------------- pure helper steps
\* validate.Struct(apiReq): a value that is not a struct (or pointer to one)
\* is an InvalidValidationError; a struct whose required field is at its
\* zero value is a ValidationErrors.
ValidateStruct(req) ==
    IF req.kind # "struct" THEN ErrInvalidValidation
    ELSE IF req.Name = "" THEN ErrValidation
    ELSE NoErr

\* Mutant of validate: the descriptor is not validated.
validateSkipped(req) == NoErr

\* The "if apiReq != nil { validate.Struct(apiReq) }" block of get and post.
validate(req) == IF req.kind # "nil" THEN ValidateStruct(req) ELSE NoErr

\* The external names of the struct's fields (their json tags).
NameTag == "ticket_group.name"
StatusTag == "ticket_group.status"

\* A struct field as reflection shows it: its json tag, its Go type, and
\* its value under the accessor of its kind (a float in units of 0.00001).
StructField(tag, type, i, f, str, b) ==
    [tag |-> tag, type |-> type, int |-> i, float |-> f, str |-> str, bool |-> b]

\* strconv.FormatUint(n, 10) and strconv.FormatInt(n, 10).
Digit(d) == <<"0", "1", "2", "3", "4", "5", "6", "7", "8", "9">>[d + 1]
RECURSIVE FormatUint(_)
FormatUint(n) == IF n < 10 THEN Digit(n) ELSE FormatUint(n \div 10) \o Digit(n % 10)
FormatInt(n) == IF n < 0 THEN "-" \o FormatUint(0 - n) ELSE FormatUint(n)

\* strconv.FormatFloat(x, 'f', 4, 64): the value rounded to four decimals,
\* always written with four decimals.
FormatFloat(x) ==
    LET a == IF x < 0 THEN 0 - x ELSE x
        q == (a + 5) \div 10
        frac == q % 10000
    IN (IF x < 0 /\ q > 0 THEN "-" ELSE "")
         \o FormatUint(q \div 10000) \o "."
         \o Digit(frac \div 1000) \o Digit((frac \div 100) % 10)
         \o Digit((frac \div 10) % 10) \o Digit(frac % 10)

\* Mutant of FieldString: a bool is rendered as true or false.
FieldStringWithBool(f) ==
    CASE f.type \in {"int", "int8", "int16", "int32", "int64"} -> FormatInt(f.int)
      [] f.type \in {"uint", "uint8", "uint16", "uint32", "uint64"} -> FormatUint(f.int)
      [] f.type \in {"float32", "float64"} -> FormatFloat(f.float)
      [] f.type = "[]byte" -> f.str
      [] f.type = "string" -> f.str
      [] f.type = "bool" -> (IF f.bool THEN "true" ELSE "false")
      [] OTHER -> ""

\* The type switch of toValues on a field's dynamic type: v for the listed
\* types, and the empty string for a field of any other type.
FieldString(f) ==
    CASE f.type \in {"int", "int8", "int16", "int32", "int64"} -> FormatInt(f.int)
      [] f.type \in {"uint", "uint8", "uint16", "uint32", "uint64"} -> FormatUint(f.int)
      [] f.type \in {"float32", "float64"} -> FormatFloat(f.float)
      [] f.type = "[]byte" -> f.str
      [] f.type = "string" -> f.str
      [] OTHER -> ""

\* The fields of a struct descriptor in declaration order.
Fields(req) ==
    <<StructField(NameTag, "string", 0, 0, req.Name, FALSE),
      StructField(StatusTag, "string", 0, 0, req.Status, FALSE)>> \o req.more

\* The loop of toValues over the struct's fields: a field whose v is not
\* empty is set under its tag.
RECURSIVE SetFields(_, _)
SetFields(values, fields) ==
    IF fields = <<>> THEN values
    ELSE LET v == FieldString(Head(fields))
         IN SetFields(IF v # "" THEN ValuesSet(values, Head(fields).tag, v) ELSE values,
                      Tail(fields))

\* Mutant of toValues: every field is set, empty or not.
RECURSIVE SetFieldsKeepEmpty(_, _)
SetFieldsKeepEmpty(values, fields) ==
    IF fields = <<>> THEN values
    ELSE SetFieldsKeepEmpty(ValuesSet(values, Head(fields).tag, FieldString(Head(fields))),
                            Tail(fields))
toValuesKeepsEmpty(req) ==
    IF req.kind = "nil" THEN EmptyValues
    ELSE IF req.kind = "values" THEN req.values
    ELSE SetFieldsKeepEmpty(EmptyValues, Fields(req))

\* toValues: nil gives an empty map, an url.Values is returned as it is, a
\* struct is walked field by field and empty renderings are left out.
toValues(req) ==
    IF req.kind = "nil" THEN EmptyValues
    ELSE IF req.kind = "values" THEN req.values
    ELSE SetFields(EmptyValues, Fields(req))

\* The text of the model's strings: a run of unreserved characters
\* (letters, digits, - _ . ~) is one atom, any other character an atom of
\* its own.
SpecialString == "a b&c=d"
Chars(s) ==
    CASE s = "" -> <<>>
      [] s = ExpandValue -> <<"venue", ",", "category", ",", "subcategories">>
      [] s = SpecialString -> <<"a", " ", "b", "&", "c", "=", "d">>
      [] OTHER -> <<s>>

\* The string of a text.
Join(text) ==
    CASE text = <<>> -> ""
      [] Len(text) = 1 -> text[1]
      [] text = Chars(ExpandValue) -> ExpandValue
      [] text = Chars(SpecialString) -> SpecialString
      [] OTHER -> "?"

\* url.QueryEscape, character by character: unreserved characters stay, a
\* space becomes +, any other byte its %XX.
EscapeAtom(a) ==
    CASE a = " " -> "+"
      [] a = "," -> "%2C"
      [] a = "&" -> "%26"
      [] a = "=" -> "%3D"
      [] OTHER -> a
QueryEscape(s) == [i \in 1..Len(Chars(s)) |-> EscapeAtom(Chars(s)[i])]

\* url.QueryUnescape, the server's side of it.
UnescapeAtom(a) ==
    CASE a = "+" -> " "
      [] a = "%2C" -> ","
      [] a = "%26" -> "&"
      [] a = "%3D" -> "="
      [] OTHER -> a
QueryUnescape(text) == Join([i \in 1..Len(text) |-> UnescapeAtom(text[i])])

\* Mutant of Encode: keys and values are written without escaping.
RECURSIVE EncodeRawFrom(_, _)
EncodeRawFrom(q, keys) ==
    IF keys = <<>> THEN <<>>
    ELSE LET pair == Chars(Head(keys)) \o <<"=">> \o Chars(q[Head(keys)])
         IN IF Len(keys) = 1 THEN pair
            ELSE pair \o <<"&">> \o EncodeRawFrom(q, Tail(keys))
KeyOrder ==
    <<"capacity", "expand", "logo", "only_public", "page_size", "start_date",
      NameTag, StatusTag, "token", "venue.address.latitude">>
EncodeUnescaped(q) ==
    EncodeRawFrom(q, SelectSeq(KeyOrder, LAMBDA k : k \in DOMAIN q))

\* url.Values.Encode: the text "key=value&key=value", keys and values
\* escaped, sorted by key.
RECURSIVE EncodeFrom(_, _)
EncodeFrom(q, keys) ==
    IF keys = <<>> THEN <<>>
    ELSE LET pair == QueryEscape(Head(keys)) \o <<"=">> \o QueryEscape(q[Head(keys)])
         IN IF Len(keys) = 1 THEN pair
            ELSE pair \o <<"&">> \o EncodeFrom(q, Tail(keys))
Encode(q) == EncodeFrom(q, SelectSeq(KeyOrder, LAMBDA k : k \in DOMAIN q))

\* strings.Split and strings.Cut on a text: the scan from position i on,
\* with the piece read so far.
RECURSIVE SplitFrom(_, _, _, _)
SplitFrom(text, sep, i, piece) ==
    IF i > Len(text) THEN <<piece>>
    ELSE IF text[i] = sep THEN <<piece>> \o SplitFrom(text, sep, i + 1, <<>>)
    ELSE SplitFrom(text, sep, i + 1, Append(piece, text[i]))
Split(text, sep) == SplitFrom(text, sep, 1, <<>>)
Cut(text, sep) ==
    LET before == Head(Split(text, sep))
    IN [before |-> before,
        after |-> SubSeq(text, Len(before) + 2, Len(text))]

\* url.ParseQuery of a raw query, read with Values.Get: the text is split
\* at every &, each piece is cut at its first =, key and value are
\* unescaped, and the first value of a key is the one a server reads.
RECURSIVE ParsePieces(_)
ParsePieces(pieces) ==
    IF pieces = <<>> THEN EmptyValues
    ELSE LET piece == Cut(Head(pieces), "=")
             rest == ParsePieces(Tail(pieces))
         IN IF Head(pieces) = <<>> THEN rest
            ELSE ValuesSet(rest, QueryUnescape(piece.before),
                           QueryUnescape(piece.after))
ParseQuery(raw) == ParsePieces(Split(raw, "&"))

\* Mutant of generateAuthQuery: the expand parameter is not set.
generateAuthQueryNoExpand(q) ==
    IF token # ""
    THEN [q |-> Encode(ValuesSet(q, "token", token)), err |-> NoErr]
    ELSE [q |-> <<>>, err |-> ErrTokenMissing]

\* Mutant of generateAuthQuery: an empty token is not rejected.
generateAuthQueryNoCheck(q) ==
    [q |-> Encode(ValuesSet(ValuesSet(q, "token", token), "expand", ExpandValue)),
     err |-> NoErr]

\* generateAuthQuery: with a token, set token and expand and encode; with
\* none, the missing-token error.
generateAuthQuery(q) ==
    IF token # ""
    THEN [q |-> Encode(ValuesSet(ValuesSet(q, "token", token), "expand", ExpandValue)),
          err |-> NoErr]
    ELSE [q |-> <<>>, err |-> ErrTokenMissing]

\* Mutant of RequestURL: the path is left out of the URL.
RequestURLHostOnly(path) ==
    IF baseURL # EmptyString THEN baseURL ELSE path

\* host + path of the three executors.
RequestURL(path) ==
    LET host == IF baseURL # EmptyString THEN baseURL ELSE path
    IN host \o path

\* A call returns err to its caller.
Fail(rec, e) == [rec EXCEPT !.pc = "done", !.err = e]

\* ctxhttp.Do(ctx, c.httpClient, req): the transport is handed the request;
\* beside the request as sent, the record keeps the query as the server
\* parses it.
Do(rec, req) ==
    [rec EXCEPT !.pc = "inflight",
                !.reqs = Append(@, [method |-> req.method, url |-> req.url,
                                    rawQuery |-> req.rawQuery, body |-> req.body,
                                    client |-> req.client,
                                    query |-> ParseQuery(req.rawQuery)])]

\* get, after awaitRateLimiter returned nil: validate, build, authenticate,
\* transmit.
get(rec) ==
    LET verr == validate(rec.apiReq)
        auth == generateAuthQuery(toValues(rec.apiReq))
    IN IF verr # NoErr THEN Fail(rec, verr)
       ELSE IF auth.err # NoErr THEN Fail(rec, auth.err)
       ELSE Do(rec, [method |-> MethodGet, url |-> RequestURL(rec.path),
                     rawQuery |-> auth.q, body |-> NilReq,
                     client |-> httpClient])

\* delete, after awaitRateLimiter returned nil.
delete(rec) ==
    LET auth == generateAuthQuery(EmptyValues)
    IN IF auth.err # NoErr THEN Fail(rec, auth.err)
       ELSE Do(rec, [method |-> MethodDelete, url |-> RequestURL(rec.path),
                     rawQuery |-> auth.q, body |-> NilReq,
                     client |-> httpClient])

\* Mutant of post: the descriptor is flattened into the query, as get does.
postWithDescriptorQuery(rec) ==
    LET auth == generateAuthQuery(toValues(rec.apiReq))
    IN IF auth.err # NoErr THEN Fail(rec, auth.err)
       ELSE Do(rec, [method |-> MethodPost, url |-> RequestURL(rec.path),
                     rawQuery |-> auth.q, body |-> rec.apiReq,
                     client |-> httpClient])

\* post, after awaitRateLimiter returned nil: marshal the descriptor as the
\* body, build, authenticate, transmit.
post(rec) ==
    LET auth == generateAuthQuery(EmptyValues)
    IN IF auth.err # NoErr THEN Fail(rec, auth.err)
       ELSE Do(rec, [method |-> MethodPost, url |-> RequestURL(rec.path),
                     rawQuery |-> auth.q, body |-> rec.apiReq,
                     client |-> httpClient])

\* The executor's steps that follow a nil return of awaitRateLimiter.
Continue(rec) ==
    CASE rec.verb = MethodGet -> get(rec)
      [] rec.verb = MethodDelete -> delete(rec)
      [] rec.verb = MethodPost -> post(rec)

\* Mutant of Before: get validates before the permit too.
BeforeGetToo(rec) ==
    IF rec.verb \in {MethodPost, MethodGet} THEN validate(rec.apiReq) ELSE NoErr

\* Mutant of Before: the token is checked before the permit.
BeforeChecksToken(rec) ==
    IF rec.verb = MethodPost /\ validate(rec.apiReq) # NoErr THEN validate(rec.apiReq)
    ELSE IF token = "" THEN ErrTokenMissing
    ELSE NoErr

\* Mutant of Before: no executor validates before the permit.
BeforeNoValidation(rec) == NoErr

\* The executor's steps that precede awaitRateLimiter: only post validates
\* first.
Before(rec) == IF rec.verb = MethodPost THEN validate(rec.apiReq) ELSE NoErr

\* ------------------------------------------------------------ the limiter
\* A permit reaches the call (from the buffer or straight from the sender):
\* awaitRateLimiter returns nil and the executor goes on.
Admit(rec) ==
    Continue([rec EXCEPT !.acquired = @ + 1])

\* awaitRateLimiter(ctx) for the call c whose record is rec.  A nil channel
\* returns at once.  Otherwise the select takes any ready case; with both
\* ready either may be taken, with none ready the call parks on both
\* channels.  A receive from a full buffer lets a parked sender complete.
awaitRateLimiter(c, rec) ==
    \/ /\ ratePerSecond.isNil
       /\ call' = [call EXCEPT ![c] = Continue(rec)]
       /\ UNCHANGED <<ratePerSecond, recvq, refill, refills>>
    \/ /\ ~ratePerSecond.isNil
       /\ rec.ctxDone
       /\ call' = [call EXCEPT ![c] = Fail(rec, ErrCanceled)]
       /\ UNCHANGED <<ratePerSecond, recvq, refill, refills>>
    \/ /\ ~ratePerSecond.isNil
       /\ ratePerSecond.len > 0
       /\ IF refill.pc = "send"
          THEN /\ ratePerSecond' = ChanSend(ChanRecv(ratePerSecond))
               /\ refill' = [refill EXCEPT !.pc = "range"]
               /\ refills' = refills + 1
          ELSE /\ ratePerSecond' = ChanRecv(ratePerSecond)
               /\ UNCHANGED <<refill, refills>>
       /\ call' = [call EXCEPT ![c] = Admit(rec)]
       /\ UNCHANGED recvq
    \/ /\ ~ratePerSecond.isNil
       /\ ~rec.ctxDone
       /\ ratePerSecond.len = 0
       /\ recvq' = Append(recvq, c)
       /\ call' = [call EXCEPT ![c] = [rec EXCEPT !.pc = "parked", !.parkedAt = now,
                                                !.suspended = TRUE]]
       /\ UNCHANGED <<ratePerSecond, refill, refills>>

\* Mutant of RefillWake: the ticker's first tick is due at once.
RefillWakeTicksAtOnce ==
    /\ refill.pc = "sleep"
    /\ now >= refill.when
    /\ refill' = [pc |-> "range", when |-> now, tick |-> 0]
    /\ UNCHANGED <<flat, constructed, token, httpClient, baseURL, requestsPerSecond,
                   ratePerSecond, recvq, refills, now, call>>

\* The refill goroutine returns from time.Sleep(time.Second) and creates
\* the ticker, whose first tick is due one interval later.
RefillWake ==
    /\ refill.pc = "sleep"
    /\ now >= refill.when
    /\ refill' = [pc |-> "range", when |-> now + 1, tick |-> 0]
    /\ UNCHANGED <<flat, constructed, token, httpClient, baseURL, requestsPerSecond,
                   ratePerSecond, recvq, refills, now, call>>

\* The runtime serves the ticker: a tick goes into the ticker's one-slot
\* channel unless one is still there, and the next tick is scheduled on the
\* period grid after now.
TickerFire ==
    /\ refill.pc \in {"range", "send"}
    /\ now >= refill.when
    /\ refill' = [refill EXCEPT !.tick = 1,
                                !.when = refill.when + 1 + (now - refill.when)]
    /\ UNCHANGED <<flat, constructed, token, httpClient, baseURL, requestsPerSecond,
                   ratePerSecond, recvq, refills, now, call>>

\* Mutant of RefillSend: the goroutine ends when it finds the bucket full.
RefillSendQuitsWhenFull ==
    /\ refill.pc = "range"
    /\ refill.tick = 1
    /\ IF recvq # <<>>
       THEN LET c == Head(recvq) IN
            /\ recvq' = Tail(recvq)
            /\ call' = [call EXCEPT ![c] =
                          Admit([call[c] EXCEPT !.parkedAt = -1])]
            /\ refills' = refills + 1
            /\ refill' = [refill EXCEPT !.tick = 0]
            /\ UNCHANGED ratePerSecond
       ELSE IF ratePerSecond.len < ratePerSecond.cap
       THEN /\ ratePerSecond' = ChanSend(ratePerSecond)
            /\ refills' = refills + 1
            /\ refill' = [refill EXCEPT !.tick = 0]
            /\ UNCHANGED <<recvq, call>>
       ELSE /\ refill' = NoRefill
            /\ UNCHANGED <<ratePerSecond, recvq, refills, call>>
    /\ UNCHANGED <<flat, constructed, token, httpClient, baseURL, requestsPerSecond, now>>

\* Mutant of RefillSend: the permit goes into the buffer even when a call
\* is parked on the channel, and the parked call is not woken.
RefillSendPastWaiters ==
    /\ refill.pc = "range"
    /\ refill.tick = 1
    /\ IF ratePerSecond.len < ratePerSecond.cap
       THEN /\ ratePerSecond' = ChanSend(ratePerSecond)
            /\ refills' = refills + 1
            /\ refill' = [refill EXCEPT !.tick = 0]
            /\ UNCHANGED <<recvq, call>>
       ELSE /\ refill' = [refill EXCEPT !.tick = 0, !.pc = "send"]
            /\ UNCHANGED <<ratePerSecond, recvq, refills, call>>
    /\ UNCHANGED <<flat, constructed, token, httpClient, baseURL, requestsPerSecond, now>>

\* One round of "for range time.Tick(...) { c.ratePerSecond <- 1 }": take
\* the tick, then send a permit: to the first parked call if there is one,
\* into the buffer if it has room, and otherwise park on the full channel.
RefillSend ==
    /\ refill.pc = "range"
    /\ refill.tick = 1
    /\ IF recvq # <<>>
       THEN LET c == Head(recvq) IN
            /\ recvq' = Tail(recvq)
            /\ call' = [call EXCEPT ![c] =
                          Admit([call[c] EXCEPT !.parkedAt = -1])]
            /\ refills' = refills + 1
            /\ refill' = [refill EXCEPT !.tick = 0]
            /\ UNCHANGED ratePerSecond
       ELSE IF ratePerSecond.len < ratePerSecond.cap
       THEN /\ ratePerSecond' = ChanSend(ratePerSecond)
            /\ refills' = refills + 1
            /\ refill' = [refill EXCEPT !.tick = 0]
            /\ UNCHANGED <<recvq, call>>
       ELSE /\ refill' = [refill EXCEPT !.tick = 0, !.pc = "send"]
            /\ UNCHANGED <<ratePerSecond, recvq, refills, call>>
    /\ UNCHANGED <<flat, constructed, token, httpClient, baseURL, requestsPerSecond, now>>

\* A timer is due, or the refill goroutine has a tick to act on.
RefillDue ==
    \/ refill.pc = "sleep" /\ now >= refill.when
    \/ refill.pc \in {"range", "send"} /\ now >= refill.when
    \/ refill.pc = "range" /\ refill.tick = 1

\* One interval passes.  Timers are served when they are due: the clock does
\* not run past a due timer or a runnable refill goroutine.
Advance ==
    /\ constructed
    /\ ~ratePerSecond.isNil
    /\ ~RefillDue
    /\ now < MaxTime
    /\ now' = now + 1
    /\ UNCHANGED <<flat, constructed, token, httpClient, baseURL, requestsPerSecond,
                   ratePerSecond, recvq, refill, refills, call>>

\* One interval passes beyond the horizon of the clock: now stays at
\* MaxTime and the ticker's deadline, which counts from now, comes one
\* interval nearer.
Elapse ==
    /\ constructed
    /\ ~ratePerSecond.isNil
    /\ ~RefillDue
    /\ now = MaxTime
    /\ refill' = [refill EXCEPT !.when = @ - 1]
    /\ UNCHANGED <<flat, constructed, token, httpClient, baseURL, requestsPerSecond,
                   ratePerSecond, recvq, refills, now, call>>

\* ---------------------------------------------------------------- the calls
\* An endpoint wrapper, given the descriptor arg by its caller, invokes one
\* executor: verb v, descriptor req (delete takes none), path p, and a
\* context that is already cancelled or not.  The call runs to its first
\* suspension point: the permit select or the transport.
Execute(c, v, arg, req, p, done) ==
    /\ constructed
    /\ call[c].pc = "idle"
    /\ v = MethodDelete => req = NilReq
    /\ LET rec == [IdleCall EXCEPT !.verb = v, !.arg = arg, !.apiReq = req,
                                   !.path = p, !.ctxDone = done]
       IN IF Before(rec) # NoErr
          THEN /\ call' = [call EXCEPT ![c] = Fail(rec, Before(rec))]
               /\ UNCHANGED <<ratePerSecond, recvq, refill, refills>>
          ELSE awaitRateLimiter(c, rec)
    /\ UNCHANGED <<flat, constructed, token, httpClient, baseURL, requestsPerSecond, now>>

\* The wrappers that hand their descriptor on to the executor, as
\* TicketGroupCreate and WebhookCreate do.
Call(c, v, req, p, done) == Execute(c, v, req, req, p, done)

\* VenueCreate(ctx, req): postJSON is called with "/venues/" and nil, not
\* with req.
VenuePath == <<"/venues/">>
VenueCreate(c, req, done) == Execute(c, MethodPost, req, NilReq, VenuePath, done)

\* Mutant of Cancel: the select of awaitRateLimiter does not listen to
\* ctx.Done(), so a parked call stays parked.
CancelUnnoticed(c) ==
    /\ call[c].pc \in {"parked", "inflight"}
    /\ ~call[c].ctxDone
    /\ call' = [call EXCEPT ![c].ctxDone = TRUE]
    /\ UNCHANGED <<flat, constructed, token, httpClient, baseURL, requestsPerSecond,
                   ratePerSecond, recvq, refill, refills, now>>

\* The caller cancels the context of a call that is under way.  A call
\* parked in the select is woken by ctx.Done() and returns ctx.Err(); a call
\* in the transport learns of it when the transport returns.
Cancel(c) ==
    /\ call[c].pc \in {"parked", "inflight"}
    /\ ~call[c].ctxDone
    /\ IF call[c].pc = "parked"
       THEN /\ recvq' = SelectSeq(recvq, LAMBDA x : x # c)
            /\ call' = [call EXCEPT ![c] =
                          Fail([call[c] EXCEPT !.ctxDone = TRUE, !.parkedAt = -1],
                               ErrCanceled)]
       ELSE /\ call' = [call EXCEPT ![c].ctxDone = TRUE]
            /\ UNCHANGED recvq
    /\ UNCHANGED <<flat, constructed, token, httpClient, baseURL, requestsPerSecond,
                   ratePerSecond, refill, refills, now>>

\* ------------------------------------------------------------ the responses
\* JSON values and response bodies: an object of typed members (a string's
\* characters, a number's digits), or bytes that are not JSON.
JString(s) == [type |-> "string", v |-> s]
JNumber(digits) == [type |-> "number", v |-> digits]
JObject(o) == [valid |-> TRUE, obj |-> o]
WidgetBody == JObject("id" :> JString("42") @@ "name" :> JString("Widget"))
MistypedWidgetBody == JObject("id" :> JString("42") @@ "name" :> JNumber("7"))
EnvelopeBody ==
    JObject("error" :> JString("NOT_FOUND")
            @@ "error_description" :> JString("no such widget")
            @@ "status_code" :> JNumber("404"))
MistypedEnvelopeBody ==
    JObject("error" :> JString("NOT_FOUND")
            @@ "error_description" :> JString("no such widget")
            @@ "status_code" :> JString("404"))
GarbageBody == [valid |-> FALSE, obj |-> EmptyValues]

Statuses == {200, 404, 500}
Bodies == {WidgetBody, MistypedWidgetBody, EnvelopeBody, MistypedEnvelopeBody,
           GarbageBody}
Responses == [status : Statuses, body : Bodies]

\* The json tags and kinds of the Error envelope and of a result type.
ErrorSchema ==
    "error" :> "string" @@ "error_description" :> "string"
    @@ "status_code" :> "number"
ResultSchema == "id" :> "string" @@ "name" :> "string"

\* json.NewDecoder(body).Decode(&v) for a v of the given schema: bytes that
\* are not JSON set nothing and fail; in an object every member that fits a
\* field is stored, members without a field are skipped, and a member of
\* the wrong type is skipped and makes the decode return an error.
Decode(body, schema) ==
    IF ~body.valid THEN [err |-> ErrDecode, val |-> EmptyValues]
    ELSE LET both == (DOMAIN body.obj) \cap (DOMAIN schema)
             hit == {k \in both : body.obj[k].type = schema[k]}
         IN [err |-> IF hit = both THEN NoErr ELSE ErrDecode,
             val |-> [k \in hit |-> body.obj[k].v]]

\* The field k of a decoded value, or the zero value of its type.
Field(val, k, zero) == IF k \in DOMAIN val THEN val[k] ELSE zero

\* The int a JSON number's digits are stored as.
ParseInt(digits) ==
    CASE digits = "404" -> 404
      [] digits = "7" -> 7
      [] OTHER -> 0

\* The Error of types.go with the fields a decode stored in it.
EnvelopeError(val) ==
    [kind |-> "eventbrite.Error", code |-> Field(val, "error", ""),
     description |-> Field(val, "error_description", ""),
     status |-> ParseInt(Field(val, "status_code", "0"))]

\* return json.NewDecoder(httpResp.Body).Decode(resp): into the caller's
\* result, whatever the decode returns.
DecodeResult(rec, resp) ==
    LET d == Decode(resp.body, ResultSchema)
    IN [Fail(rec, d.err) EXCEPT !.resp = resp, !.decoded = TRUE,
                                !.result = d.val]

\* Mutant of getJSON: the error envelope takes the response's HTTP status.
getJSONHTTPStatus(rec, resp) ==
    IF resp.status = 200 THEN DecodeResult(rec, resp)
    ELSE [Fail(rec, [EnvelopeError(Decode(resp.body, ErrorSchema).val)
                        EXCEPT !.status = resp.status])
            EXCEPT !.resp = resp]

\* Mutant of getJSON: a failed decode of the error body is returned.
getJSONDecodeErrorReturned(rec, resp) ==
    IF resp.status = 200 THEN DecodeResult(rec, resp)
    ELSE LET d == Decode(resp.body, ErrorSchema)
         IN [Fail(rec, IF d.err # NoErr THEN d.err ELSE EnvelopeError(d.val))
               EXCEPT !.resp = resp]

\* getJSON after get returned a response: decode on 200, else decode the
\* body into an Error, drop what that decode returns, and return the Error.
getJSON(rec, resp) ==
    IF resp.status = 200 THEN DecodeResult(rec, resp)
    ELSE [Fail(rec, EnvelopeError(Decode(resp.body, ErrorSchema).val))
            EXCEPT !.resp = resp]

\* Mutant of postJSON: the status code is looked at, as getJSON does.
postJSONStatusChecked(rec, resp) ==
    IF resp.status = 200 THEN DecodeResult(rec, resp)
    ELSE [Fail(rec, EnvelopeError(Decode(resp.body, ErrorSchema).val))
            EXCEPT !.resp = resp]

\* postJSON and deleteJSON after the executor returned a response.
postJSON(rec, resp) == DecodeResult(rec, resp)
deleteJSON(rec, resp) == DecodeResult(rec, resp)

\* The transport returns a response to a call in flight.
Respond(c, resp) ==
    /\ call[c].pc = "inflight"
    /\ call' = [call EXCEPT ![c] =
                  CASE call[c].verb = MethodGet -> getJSON(call[c], resp)
                    [] call[c].verb = MethodPost -> postJSON(call[c], resp)
                    [] call[c].verb = MethodDelete -> deleteJSON(call[c], resp)]
    /\ UNCHANGED <<flat, constructed, token, httpClient, baseURL, requestsPerSecond,
                   ratePerSecond, recvq, refill, refills, now>>

\* Mutant of TransportError: a failed request is sent once more.
TransportErrorRetried(c) ==
    /\ call[c].pc = "inflight"
    /\ call' = [call EXCEPT ![c] =
                  IF call[c].ctxDone THEN Fail(call[c], ErrCanceled)
                  ELSE Do(call[c], call[c].reqs[1])]
    /\ UNCHANGED <<flat, constructed, token, httpClient, baseURL, requestsPerSecond,
                   ratePerSecond, recvq, refill, refills, now>>

\* Mutant of TransportError: a failed request makes the client forget its
\* token.
TransportErrorDropsToken(c) ==
    /\ call[c].pc = "inflight"
    /\ call' = [call EXCEPT ![c] =
                  Fail(call[c], IF call[c].ctxDone THEN ErrCanceled ELSE ErrTransport)]
    /\ token' = ""
    /\ UNCHANGED <<flat, constructed, httpClient, baseURL, requestsPerSecond,
                   ratePerSecond, recvq, refill, refills, now>>

\* The transport returns an error; ctxhttp.Do replaces it by ctx.Err() when
\* the context is done.
TransportError(c) ==
    /\ call[c].pc = "inflight"
    /\ call' = [call EXCEPT ![c] =
                  Fail(call[c], IF call[c].ctxDone THEN ErrCanceled ELSE ErrTransport)]
    /\ UNCHANGED <<flat, constructed, token, httpClient, baseURL, requestsPerSecond,
                   ratePerSecond, recvq, refill, refills, now>>

\* ------------------------------------------------------------ specification
\* The calls share one client and meet only in its limiter.  Call 1 ranges
\* over every verb, descriptor and response; the calls beside it are plain
\* calls without descriptor (a DELETE, a POST, a GET, and so on in turn)
\* that start with a live context, which may be cancelled later, and get a
\* 200 response; they start in the order of their numbers.
Subject == 1
Others == Calls \ {Subject}
VerbOf(c) ==
    CASE c % 3 = 2 -> MethodDelete
      [] c % 3 = 0 -> MethodPost
      [] c % 3 = 1 -> MethodGet
OKResponse == [status |-> 200, body |-> WidgetBody]

SubjectCall(v, req, p, done) == Call(Subject, v, req, p, done)

OtherCall(c, p, done) ==
    /\ IF c - 1 \in Others THEN call[c - 1].pc # "idle" ELSE TRUE
    /\ Call(c, VerbOf(c), NilReq, p, done)

\* The responses of the shared-client specification: a success, an API
\* error, and an error whose body is not JSON.
PlainResponses ==
    {[status |-> 200, body |-> WidgetBody], [status |-> 404, body |-> EnvelopeBody],
     [status |-> 404, body |-> GarbageBody]}

Next ==
    \/ \E tok \in Tokens, rps \in RateOptions :
          NewClient(tok, DefaultBaseURL, rps)
    \/ \E v \in Verbs, req \in ApiReqs, done \in BOOLEAN :
          SubjectCall(v, req, TicketGroupPath, done)
    \/ \E c \in Others : OtherCall(c, TicketGroupPath, FALSE)
    \/ \E c \in Calls : Cancel(c)
    \/ \E resp \in PlainResponses : Respond(Subject, resp)
    \/ \E c \in Others : Respond(c, OKResponse)
    \/ TransportError(Subject)
    \/ RefillWake
    \/ TickerFire
    \/ RefillSend
    \/ Advance

Spec == Init /\ [][Next]_vars

\* One caller alone on its client, over every base URL, path and response.
NextWire ==
    \/ \E tok \in Tokens, base \in BaseURLs, rps \in RateOptions :
          NewClient(tok, base, rps)
    \/ \E v \in Verbs, req \in ApiReqs, p \in Paths, done \in BOOLEAN :
          SubjectCall(v, req, p, done)
    \/ \E req \in StructReqs, done \in BOOLEAN : VenueCreate(Subject, req, done)
    \/ Cancel(Subject)
    \/ \E resp \in Responses : Respond(Subject, resp)
    \/ TransportError(Subject)
    \/ RefillWake
    \/ TickerFire
    \/ RefillSend
    \/ Advance

SpecWire == Init /\ [][NextWire]_vars

\* ------------------------------------------- the limiter under fair scheduling
\* Clients with the limiter on, plain calls, and time without end.  The Go
\* runtime serves a timer that is due and runs a goroutine that can run, and
\* time passes: the steps of the timers and the clock are weakly fair, and
\* so is the round of the refill goroutine's loop.  Nothing is assumed of
\* the callers or the transport.
TimerStep == RefillWake \/ TickerFire \/ Advance \/ Elapse

\* One round of "for range time.Tick(...) { c.ratePerSecond <- 1 }" as the
\* goroutine itself goes through it: it takes the tick, and it has sent its
\* permit or is parked on the full channel.  RefillSend is this step
\* together with what the send does to the bucket and to a waiting call.
RefillRound ==
    /\ refill.pc = "range"
    /\ refill.tick = 1
    /\ refill' = [refill EXCEPT
                    !.tick = 0,
                    !.pc = IF recvq = <<>> /\ ratePerSecond.len >= ratePerSecond.cap
                           THEN "send" ELSE "range"]

NextLive ==
    \/ \E rps \in 1..MaxRate : NewClient("abc123", DefaultBaseURL, rps)
    \/ \E done \in BOOLEAN : SubjectCall(MethodGet, NilReq, TicketGroupPath, done)
    \/ \E c \in Others : OtherCall(c, TicketGroupPath, FALSE)
    \/ \E c \in Calls : Cancel(c)
    \/ \E c \in Calls : Respond(c, OKResponse)
    \/ RefillWake
    \/ TickerFire
    \/ RefillSend
    \/ Advance
    \/ Elapse

SpecLive ==
    /\ Init
    /\ [][NextLive]_vars
    /\ WF_vars(TimerStep)
    /\ WF_refill(RefillRound)

\* ------------------------------------------------- the flattener on its own
\* The descriptors the flattener is given: nil, structs over every choice
\* of field values, and url.Values maps over every choice of keys and
\* values.
FieldValues == {"", "Party", "live", SpecialString}
\* Further fields of a struct: none; an int, a float64, a bool and a
\* time.Time over a choice of values; or an uint and a []byte.
IntValues == {0, 50}
FloatValues == {0, 150000, 123456}
MoreFields ==
    {<<>>,
     <<StructField("capacity", "uint", 0, 0, "", FALSE),
       StructField("logo", "[]byte", 0, 0, "live", FALSE)>>}
    \cup {<<StructField("page_size", "int", n, 0, "", FALSE),
            StructField("venue.address.latitude", "float64", 0, x, "", FALSE),
            StructField("only_public", "bool", 0, 0, "", b),
            StructField("start_date", "time.Time", 0, 0, "2026", FALSE)>> :
              n \in IntValues, x \in FloatValues, b \in BOOLEAN}
FlatStructReqs ==
    {[kind |-> "struct", Name |-> n, Status |-> st, values |-> EmptyValues,
      more |-> m] :
        n \in FieldValues, st \in FieldValues, m \in MoreFields}
FlatValuesReqs ==
    {[kind |-> "values", Name |-> "", Status |-> "", values |-> m, more |-> <<>>] :
        m \in UNION {[D -> FieldValues] : D \in SUBSET {NameTag, StatusTag}}}
Descriptors == {NilReq} \cup FlatStructReqs \cup FlatValuesReqs

\* A client with a token and without limiter, and a descriptor about to be
\* sent by get.
InitFlatten ==
    /\ constructed = TRUE
    /\ token = "abc123"
    /\ httpClient = DefaultHTTPClient
    /\ baseURL = DefaultBaseURL
    /\ requestsPerSecond = 0
    /\ ratePerSecond = NilChan
    /\ recvq = <<>>
    /\ refill = NoRefill
    /\ refills = 0
    /\ now = 0
    /\ call = [c \in Calls |-> IdleCall]
    /\ flat \in {[NoFlat EXCEPT !.stage = "descriptor", !.apiReq = d] :
                    d \in Descriptors}

\* toValues(apiReq), the argument of generateAuthQuery in get.
Flatten ==
    /\ flat.stage = "descriptor"
    /\ flat' = [flat EXCEPT !.stage = "values", !.values = toValues(flat.apiReq)]
    /\ UNCHANGED <<constructed, token, httpClient, baseURL, requestsPerSecond,
                   ratePerSecond, recvq, refill, refills, now, call>>

\* q, err := c.generateAuthQuery(path, ...); req.URL.RawQuery = q.
EncodeQuery ==
    /\ flat.stage = "values"
    /\ flat' = [flat EXCEPT !.stage = "query",
                            !.rawQuery = generateAuthQuery(flat.values).q]
    /\ UNCHANGED <<constructed, token, httpClient, baseURL, requestsPerSecond,
                   ratePerSecond, recvq, refill, refills, now, call>>

\* A server decodes the query string it received.
ServerParse ==
    /\ flat.stage = "query"
    /\ flat' = [flat EXCEPT !.stage = "parsed", !.parsed = ParseQuery(flat.rawQuery)]
    /\ UNCHANGED <<constructed, token, httpClient, baseURL, requestsPerSecond,
                   ratePerSecond, recvq, refill, refills, now, call>>

NextFlatten == Flatten \/ EncodeQuery \/ ServerParse

SpecFlatten == InitFlatten /\ [][NextFlatten]_vars

\* ------------------------------------------------------------------ claims
LimiterOn == constructed /\ requestsPerSecond > 0

RECURSIVE SumAcquired(_)
SumAcquired(n) == IF n = 0 THEN 0 ELSE call[n].acquired + SumAcquired(n - 1)

RECURSIVE SumRequests(_)
SumRequests(n) == IF n = 0 THEN 0 ELSE Len(call[n].reqs) + SumRequests(n - 1)

\* C1: with a rate limit N > 0 the bucket always holds between 0 and N
\* permits, whatever construction, refill ticks, acquisitions and
\* cancellations have happened.
C1_PermitsWithinLimit ==
    LimiterOn =>
        /\ ~ratePerSecond.isNil
        /\ ratePerSecond.len >= 0
        /\ ratePerSecond.len <= requestsPerSecond

\* C1 witness: after an acquisition, a cancellation and a refill, a tick
\* finds the bucket full and the refill goroutine is held back.
C1_Witness ==
    /\ LimiterOn
    /\ ratePerSecond.len = requestsPerSecond
    /\ refill.pc = "send"
    /\ refills >= 1
    /\ \E c \in Calls : call[c].acquired = 1
    /\ \E c \in Calls : call[c].err = ErrCanceled /\ call[c].acquired = 0

\* C2: permits are single-use.  Every permit ever made (N primed plus one
\* per refill step) is either still in the bucket or was taken by exactly
\* one call; a call takes at most one; so the calls admitted, and the
\* requests issued, number at most N plus the refill steps.
C2_PermitsSingleUse ==
    LimiterOn =>
        /\ SumAcquired(MaxCalls) + ratePerSecond.len = requestsPerSecond + refills
        /\ \A c \in Calls : call[c].acquired <= 1 /\ Len(call[c].reqs) <= call[c].acquired
        /\ SumAcquired(MaxCalls) <= requestsPerSecond + refills
        /\ SumRequests(MaxCalls) <= requestsPerSecond + refills

\* C2 witness: two calls were parked on the empty bucket and one refill
\* step admitted exactly one of them.
C2_Witness ==
    /\ LimiterOn
    /\ refills = 1
    /\ \E c, d \in Calls :
          /\ call[c].suspended /\ call[c].acquired = 1 /\ Len(call[c].reqs) = 1
          /\ call[d].pc = "parked"

\* The calls issued so far.
Issuers == {c \in Calls : call[c].pc # "idle"}

\* C3 as stated: the first N calls do not suspend, and a call that finds
\* the bucket empty within the first second (so that the N admitted calls
\* and this one all fall within under one second) waits roughly one
\* interval: less than two.
C3_Original ==
    LimiterOn =>
        /\ Cardinality(Issuers) <= requestsPerSecond =>
              \A c \in Calls : ~call[c].suspended
        /\ \A c \in Calls :
              (call[c].pc = "parked" /\ call[c].parkedAt < requestsPerSecond)
                 => now - call[c].parkedAt < 2

\* C3 amended: on a freshly built client the first N calls do not suspend;
\* until the first refill step at most N calls are admitted and any other
\* waits; and the first refill step, hence the admission of a call that
\* waited, comes no earlier than N + 1 intervals (one second plus one
\* interval) after construction.
C3_FirstRefillAfterSleep ==
    LimiterOn =>
        /\ Cardinality(Issuers) <= requestsPerSecond =>
              \A c \in Calls : ~call[c].suspended
        /\ refills = 0 => SumAcquired(MaxCalls) <= requestsPerSecond
        /\ refills > 0 => now >= requestsPerSecond + 1
        /\ \A c \in Calls :
              (call[c].suspended /\ call[c].acquired = 1)
                 => now >= requestsPerSecond + 1

\* C3 witness: the (N+1)th call waited from the start and is admitted by
\* the first refill step, N + 1 intervals after construction.
C3_Witness ==
    /\ LimiterOn
    /\ now = requestsPerSecond + 1
    /\ refills = 1
    /\ Cardinality({c \in Calls : call[c].acquired = 1 /\ ~call[c].suspended})
          = requestsPerSecond
    /\ \E c \in Calls : call[c].suspended /\ call[c].acquired = 1

\* C4: with a rate limit N <= 0 there is no bucket and no refill task, and
\* permit acquisition neither suspends nor fails: no call waits, and a
\* cancellation error can only come from the transport.
C4_DisabledLimiter ==
    (constructed /\ requestsPerSecond <= 0) =>
        /\ ratePerSecond.isNil
        /\ refill.pc = "none"
        /\ refills = 0
        /\ recvq = <<>>
        /\ \A c \in Calls :
              /\ ~call[c].suspended
              /\ call[c].pc # "parked"
              /\ call[c].acquired = 0
              /\ call[c].err = ErrCanceled => Len(call[c].reqs) = 1

\* C4 witness: WithRateLimit(0); a POST and a DELETE whose context was
\* already cancelled both reached the transport.
C4_Witness ==
    /\ constructed
    /\ requestsPerSecond = 0
    /\ \E c, d \in Calls :
          /\ call[c].verb = MethodPost /\ Len(call[c].reqs) = 1
          /\ call[d].verb = MethodDelete /\ Len(call[d].reqs) = 1
          /\ call[d].ctxDone /\ call[d].err = ErrCanceled

\* C5: a call whose context is cancelled while it waits for a permit
\* returns the cancellation error in that step, takes no permit, leaves the
\* bucket as it was, issues no request, and does nothing afterwards.
C5_CancelWhileWaiting ==
    [][\A c \in Calls :
          /\ (call[c].pc = "parked" /\ call'[c].ctxDone) =>
                /\ call'[c].pc = "done"
                /\ call'[c].err = ErrCanceled
                /\ call'[c].acquired = 0
                /\ call'[c].reqs = <<>>
                /\ ratePerSecond' = ratePerSecond
                /\ refills' = refills
          /\ call[c].pc = "done" => call'[c] = call[c]]_vars

\* C5 witness: a call that waited on the empty bucket was cancelled and
\* has returned the cancellation error.
C5_Witness ==
    /\ LimiterOn
    /\ ratePerSecond.len = 0
    /\ \E c \in Calls :
          /\ call[c].suspended /\ call[c].ctxDone
          /\ call[c].pc = "done" /\ call[c].err = ErrCanceled
          /\ call[c].acquired = 0 /\ call[c].reqs = <<>>

\* A descriptor with a field tagged required left at its zero value.
MissingRequired(req) == req.kind = "struct" /\ req.Name = ""

ValidationErrs == {ErrValidation, ErrInvalidValidation}

\* The requests issued so far, each with the query a server reads from it.
Issued ==
    {[method |-> call[c].reqs[1].method,
      query |-> call[c].reqs[1].query] :
        c \in {d \in Calls : call[d].reqs # <<>>}}

\* C6 as stated: a GET or POST whose descriptor misses a required field
\* issues no request and, when it returns, returns a validation error.
C6_Original ==
    \A c \in Calls :
        (call[c].pc # "idle" /\ call[c].verb \in {MethodGet, MethodPost}
           /\ MissingRequired(call[c].apiReq)) =>
            /\ call[c].reqs = <<>>
            /\ call[c].pc = "done" => call[c].err = ErrValidation

\* C6 amended: such a call never issues a request; a POST returns the
\* validation error at once; a GET returns the validation error unless its
\* context is cancelled while it acquires the permit, in which case it
\* returns the cancellation error without having taken a permit.
C6_InvalidNeverSent ==
    \A c \in Calls :
        (call[c].pc # "idle" /\ call[c].verb \in {MethodGet, MethodPost}
           /\ MissingRequired(call[c].apiReq)) =>
            /\ call[c].reqs = <<>>
            /\ call[c].pc # "inflight"
            /\ call[c].verb = MethodPost =>
                  call[c].pc = "done" /\ call[c].err = ErrValidation
            /\ call[c].pc = "done" =>
                  \/ call[c].err = ErrValidation
                  \/ /\ call[c].verb = MethodGet
                     /\ call[c].err = ErrCanceled
                     /\ call[c].acquired = 0
                     /\ ~ratePerSecond.isNil

\* C6 witness: on a client without token, a GET with a missing required
\* field took a permit and returned the validation error.
C6_Witness ==
    /\ token = ""
    /\ \E c \in Calls :
          /\ call[c].verb = MethodGet /\ MissingRequired(call[c].apiReq)
          /\ call[c].pc = "done" /\ call[c].err = ErrValidation
          /\ call[c].acquired = 1 /\ call[c].reqs = <<>>

\* C7 as stated: validation comes before the permit for GET and POST, so a
\* call that fails validation has taken no permit.
C7_Original ==
    \A c \in Calls : call[c].err \in ValidationErrs => call[c].acquired = 0

\* C7 amended: POST validates before the permit (a POST that fails
\* validation has neither waited nor taken a permit); GET takes the permit
\* first (with the limiter on, a GET that fails validation has taken one).
C7_ValidationOrder ==
    \A c \in Calls :
        /\ (call[c].pc # "idle" /\ call[c].verb = MethodPost
              /\ validate(call[c].apiReq) # NoErr) =>
                /\ call[c].pc = "done"
                /\ call[c].err = validate(call[c].apiReq)
                /\ call[c].acquired = 0
                /\ ~call[c].suspended
        /\ (call[c].verb = MethodGet /\ call[c].err \in ValidationErrs) =>
                call[c].acquired = (IF ratePerSecond.isNil THEN 0 ELSE 1)
        /\ call[c].err \in ValidationErrs => call[c].verb # MethodDelete

\* C7 witness: while the bucket is empty and another call waits for a
\* permit, a POST has failed validation without waiting or taking one.
C7_Witness ==
    /\ LimiterOn
    /\ ratePerSecond.len = 0
    /\ \E c, d \in Calls :
          /\ call[c].verb = MethodPost /\ call[c].err = ErrValidation
          /\ call[c].acquired = 0 /\ ~call[c].suspended
          /\ call[d].pc = "parked"

C9_TokenAndExpandOnEveryRequest ==
    \A r \in Issued :
        /\ "token" \in DOMAIN r.query
        /\ r.query["token"] = token
        /\ token # ""
        /\ "expand" \in DOMAIN r.query
        /\ r.query["expand"] = ExpandValue

\* C9 witness: a POST and a DELETE have been issued.
C9_Witness ==
    \E r, t \in Issued : r.method = MethodPost /\ t.method = MethodDelete

\* C10 as stated: the query of a POST or DELETE request has the token key
\* and no expand key.
C10_Original ==
    \A r \in Issued :
        r.method \in {MethodPost, MethodDelete} =>
            "token" \in DOMAIN r.query /\ "expand" \notin DOMAIN r.query

\* C10 amended: the query of a POST or DELETE request has exactly the two
\* injected keys, token and expand, and no descriptor field.
C10_PostDeleteQueryKeys ==
    \A r \in Issued :
        r.method \in {MethodPost, MethodDelete} =>
            DOMAIN r.query = {"token", "expand"}

\* C10 witness: a POST whose descriptor has a non-empty field was issued.
C10_Witness ==
    \E c \in Calls :
        /\ call[c].verb = MethodPost
        /\ call[c].apiReq.kind = "struct" /\ call[c].apiReq.Name # ""
        /\ Len(call[c].reqs) = 1

\* ------------------------------------------------------- responses (C11..)
\* The call c has returned after a response reached it.
Answered(c) == call[c].pc = "done" /\ call[c].resp.status # 0

\* The member k of a JSON body, as its characters, or zero when absent.
Member(body, k, zero) ==
    IF body.valid /\ k \in DOMAIN body.obj THEN body.obj[k].v ELSE zero

\* The member k of a JSON body has the type the Error field of that tag has.
WellTyped(body, k) ==
    body.valid /\ k \in DOMAIN body.obj /\ body.obj[k].type = ErrorSchema[k]

\* The body decodes as the error envelope: it is a JSON object and none of
\* its members has another type than the envelope's field.
IsEnvelope(body) ==
    /\ body.valid
    /\ \A k \in (DOMAIN body.obj) \cap (DOMAIN ErrorSchema) : WellTyped(body, k)

\* C11: a GET answered with a status other than 200 and a body that decodes
\* as the error envelope returns an API error whose code, description and
\* status are the body's error, error_description and status_code, and
\* nothing of that body is decoded into the caller's result.
C11_APIErrorFromEnvelope ==
    \A c \in Calls :
        (/\ Answered(c) /\ call[c].verb = MethodGet
         /\ call[c].resp.status # 200 /\ IsEnvelope(call[c].resp.body))
        => /\ call[c].err.kind = "eventbrite.Error"
           /\ call[c].err.code = Member(call[c].resp.body, "error", "")
           /\ call[c].err.description =
                  Member(call[c].resp.body, "error_description", "")
           /\ call[c].err.status =
                  ParseInt(Member(call[c].resp.body, "status_code", "0"))
           /\ ~call[c].decoded
           /\ call[c].result = EmptyValues

\* C11 witness: a GET answered 500 with the NOT_FOUND envelope (whose
\* status_code is 404) has returned that envelope as its error.
C11_Witness ==
    /\ Answered(Subject) /\ call[Subject].verb = MethodGet
    /\ call[Subject].resp = [status |-> 500, body |-> EnvelopeBody]
    /\ call[Subject].err.code = "NOT_FOUND"
    /\ call[Subject].err.description = "no such widget"
    /\ call[Subject].err.status = 404

\* The zero-valued error envelope.
ZeroEnvelope == Err("eventbrite.Error")

\* C12 as stated: a GET answered with a status other than 200 and a body
\* that cannot be decoded as the error envelope returns the zero-valued
\* envelope.
C12_Original ==
    \A c \in Calls :
        (/\ Answered(c) /\ call[c].verb = MethodGet
         /\ call[c].resp.status # 200 /\ ~IsEnvelope(call[c].resp.body))
        => call[c].err = ZeroEnvelope

\* C12: a GET answered with a status other than 200 and a body that cannot
\* be decoded as the error envelope still returns an error envelope, never
\* the decode failure; the envelope is zero-valued when the body is not
\* JSON, and otherwise holds the body's well-typed members and zero for the
\* others.
C12_UndecodableEnvelope ==
    \A c \in Calls :
        (/\ Answered(c) /\ call[c].verb = MethodGet
         /\ call[c].resp.status # 200 /\ ~IsEnvelope(call[c].resp.body))
        => LET body == call[c].resp.body IN
           /\ call[c].err.kind = "eventbrite.Error"
           /\ ~call[c].decoded
           /\ ~body.valid => call[c].err = ZeroEnvelope
           /\ call[c].err.code =
                  (IF WellTyped(body, "error")
                   THEN Member(body, "error", "") ELSE "")
           /\ call[c].err.description =
                  (IF WellTyped(body, "error_description")
                   THEN Member(body, "error_description", "") ELSE "")
           /\ call[c].err.status =
                  (IF WellTyped(body, "status_code")
                   THEN ParseInt(Member(body, "status_code", "0")) ELSE 0)

\* C12 witness: a GET answered 404 with bytes that are not JSON has
\* returned the zero-valued envelope.
C12_Witness ==
    /\ Answered(Subject) /\ call[Subject].verb = MethodGet
    /\ call[Subject].resp = [status |-> 404, body |-> GarbageBody]
    /\ call[Subject].err = ZeroEnvelope

\* The body decodes into the caller's result type.
IsResult(body) ==
    /\ body.valid
    /\ \A k \in (DOMAIN body.obj) \cap (DOMAIN ResultSchema) :
          body.obj[k].type = ResultSchema[k]

\* C13: a POST or DELETE that reached the network decodes the body into
\* the caller's result whatever the status: an answered call returns nil
\* exactly when the body decodes, and a call that issued a request returns
\* no other error than the transport's (the context's, when it is done) or
\* the decode's.
C13_NoStatusBranching ==
    \A c \in Calls :
        (call[c].pc = "done" /\ call[c].verb \in {MethodPost, MethodDelete}
         /\ call[c].reqs # <<>>)
        => /\ Answered(c) =>
                /\ call[c].decoded
                /\ (call[c].err = NoErr) <=> IsResult(call[c].resp.body)
                /\ call[c].err \in {NoErr, ErrDecode}
           /\ ~Answered(c) => call[c].err \in {ErrTransport, ErrCanceled}

\* C13 witness: a POST answered 404 with the error envelope, which is valid
\* JSON, has returned nil.
C13_Witness ==
    /\ Answered(Subject) /\ call[Subject].verb = MethodPost
    /\ call[Subject].resp = [status |-> 404, body |-> EnvelopeBody]
    /\ call[Subject].err = NoErr
    /\ call[Subject].decoded

\* C14 as stated: a call that returned has either a nil error and a result
\* populated from a success response, or an error and nothing in the
\* result; a non-200 response never gives a nil error.
C14_Original ==
    \A c \in Calls :
        call[c].pc = "done"
        => IF call[c].err = NoErr
           THEN call[c].resp.status = 200 /\ call[c].decoded
           ELSE call[c].result = EmptyValues

\* C15: every call is one linear pass without retry: a call never holds
\* more than one permit nor issues more than one request, an error ends the
\* call, and a call that has returned does nothing more.
C15_OnePassNoRetry ==
    [][\A c \in Calls :
          /\ call'[c].acquired <= 1
          /\ Len(call'[c].reqs) <= 1
          /\ call'[c].err # NoErr => call'[c].pc = "done"
          /\ call[c].pc = "done" => call'[c] = call[c]]_vars

\* C15 witness: on a limited client a call whose request the transport
\* failed has returned that error, with one permit taken and one request
\* issued, and another call has returned from a request of its own.
C15_Witness ==
    /\ LimiterOn
    /\ call[Subject].pc = "done" /\ call[Subject].err = ErrTransport
    /\ call[Subject].acquired = 1 /\ Len(call[Subject].reqs) = 1
    /\ \E c \in Others : call[c].pc = "done" /\ Len(call[c].reqs) = 1

\* C18: after construction no step of any call, succeeding or failing,
\* changes the client's base URL, token, HTTP client or rate setting, nor
\* which channel the limiter is and its capacity; of the client only the
\* number of permits in the bucket changes.
C18_ConfigurationImmutable ==
    [][constructed =>
          /\ UNCHANGED <<constructed, token, httpClient, baseURL, requestsPerSecond>>
          /\ ratePerSecond'.isNil = ratePerSecond.isNil
          /\ ratePerSecond'.cap = ratePerSecond.cap]_vars

\* C18 witness: on a limited client with a token calls have succeeded and
\* failed, permits have been taken, and the configuration is the one given
\* at construction.
C18_Witness ==
    /\ LimiterOn /\ token = "abc123" /\ baseURL = DefaultBaseURL
    /\ httpClient = DefaultHTTPClient
    /\ ratePerSecond.len < ratePerSecond.cap
    /\ \E c, d \in Calls :
          /\ call[c].pc = "done" /\ call[c].err = NoErr /\ call[c].decoded
          /\ call[d].pc = "done" /\ call[d].err # NoErr

\* C16 as stated: for every base URL, the empty override included, and
\* every path, the URL of an issued request is the base URL followed by the
\* path.
C16_Original ==
    \A c \in Calls :
        \A i \in 1..Len(call[c].reqs) :
            call[c].reqs[i].url = baseURL \o call[c].path

\* The text of a query string: its pairs in their order, as the wire has
\* them.
TestURL == <<"http://test.local", "/widgets/", "42", "/">>
StatedQuery ==
    <<"token", "=", "abc123", "&",
      "expand", "=", "venue", ",", "category", ",", "subcategories">>
EncodedQuery ==
    <<"expand", "=", "venue", "%2C", "category", "%2C", "subcategories", "&",
      "token", "=", "abc123">>
WidgetValue == "id" :> "42" @@ "name" :> "Widget"

\* The scenario of C17: base URL http://test.local, token abc123, a GET for
\* /widgets/42/ without descriptor, which has passed the limiter.
Scenario(c) ==
    /\ baseURL = TestBaseURL /\ token = "abc123"
    /\ call[c].verb = MethodGet /\ call[c].path = WidgetPath
    /\ call[c].apiReq = NilReq
    /\ call[c].pc \in {"inflight", "done"}
    /\ (call[c].err # ErrCanceled \/ call[c].reqs # <<>>)

\* C17 as stated: the scenario issues exactly one request, to
\* http://test.local/widgets/42/ with the query string
\* token=abc123&expand=venue,category,subcategories, and a 200 response with
\* a valid body returns the decoded value and a nil error.
C17_Original ==
    \A c \in Calls :
        Scenario(c) =>
            /\ Len(call[c].reqs) = 1
            /\ call[c].reqs[1].url = TestURL
            /\ call[c].reqs[1].rawQuery = StatedQuery
            /\ (Answered(c) /\ call[c].resp = [status |-> 200, body |-> WidgetBody])
                  => call[c].err = NoErr /\ call[c].result = WidgetValue

\* C17: the scenario issues exactly one request, to
\* http://test.local/widgets/42/ with the query string
\* expand=venue%2Ccategory%2Csubcategories&token=abc123, which a server
\* parses to token=abc123 and expand=venue,category,subcategories, and a 200
\* response with a valid body returns the decoded value and a nil error.
C17_ScenarioRequest ==
    \A c \in Calls :
        Scenario(c) =>
            /\ Len(call[c].reqs) = 1
            /\ call[c].reqs[1].method = MethodGet
            /\ call[c].reqs[1].url = TestURL
            /\ call[c].reqs[1].rawQuery = EncodedQuery
            /\ call[c].reqs[1].query
                  = ("token" :> "abc123" @@ "expand" :> ExpandValue)
            /\ (Answered(c) /\ call[c].resp = [status |-> 200, body |-> WidgetBody])
                  => call[c].err = NoErr /\ call[c].result = WidgetValue

\* C17 witness: the scenario's call has returned the decoded widget.
C17_Witness ==
    /\ Scenario(Subject) /\ Answered(Subject)
    /\ call[Subject].resp = [status |-> 200, body |-> WidgetBody]
    /\ call[Subject].result = WidgetValue /\ call[Subject].err = NoErr

\* ------------------------------------------------------ flattener (C19..)
\* The fields of a descriptor with their external names and rendered
\* values: a struct's tagged fields, a mapping's own pairs.
Rendered(req) ==
    CASE req.kind = "struct" ->
            [k \in {Fields(req)[i].tag : i \in DOMAIN Fields(req)} |->
                FieldString(CHOOSE f \in {Fields(req)[i] : i \in DOMAIN Fields(req)} :
                                f.tag = k)]
      [] req.kind = "values" -> req.values
      [] OTHER -> EmptyValues

\* The fields whose rendered value is not empty.
NonEmptyFields(req) == {k \in DOMAIN Rendered(req) : Rendered(req)[k] # ""}

Flattened == flat.stage \in {"values", "query", "parsed"}

C20_FlattenerRoundTrip ==
    flat.stage = "parsed" =>
        \A k \in NonEmptyFields(flat.apiReq) :
            k \in DOMAIN flat.parsed /\ flat.parsed[k] = Rendered(flat.apiReq)[k]

\* C20 witness: a descriptor whose name has characters that a query string
\* escapes has gone the round trip, beside a plain status.
C20_Witness ==
    /\ flat.stage = "parsed"
    /\ flat.apiReq.kind = "struct"
    /\ flat.apiReq.Name = SpecialString /\ flat.apiReq.Status = "live"
    /\ flat.rawQuery # Encode(EmptyValues)
    /\ flat.parsed[NameTag] = SpecialString /\ flat.parsed[StatusTag] = "live"

\* The default rate the documentation of WithRateLimit states.
DocumentedRequestsPerSecond == 50

\* A client built without the WithRateLimit option: its rate is none of the
\* rates the option is given here.
DefaultRated == constructed /\ requestsPerSecond \notin (-1..MaxRate)

\* C21: a client constructed without WithRateLimit limits outbound calls to
\* 50 requests per second: its bucket has room for 50 permits and is primed
\* with 50.
C21_Original ==
    DefaultRated =>
        /\ requestsPerSecond = DocumentedRequestsPerSecond
        /\ ~ratePerSecond.isNil
        /\ ratePerSecond.cap = DocumentedRequestsPerSecond
        /\ (SumAcquired(MaxCalls) = 0 /\ refills = 0) =>
              ratePerSecond.len = DocumentedRequestsPerSecond

\* The query a server reads from a request that carries the pairs of q and
\* the injected parameters.
WithAuth(q) == ValuesSet(ValuesSet(q, "token", token), "expand", ExpandValue)

\* C22: a GET call whose descriptor is a flat key/value mapping, on a client
\* with a token and a live context, reaches the network once admitted, and
\* the query of its request holds exactly the mapping's pairs and the
\* injected parameters; with a nil descriptor only the injected parameters.
C22_Original ==
    \A c \in Calls :
        (/\ call[c].pc \in {"inflight", "done"}
         /\ call[c].verb = MethodGet
         /\ call[c].apiReq.kind \in {"values", "nil"}
         /\ token # ""
         /\ ~call[c].ctxDone)
        => /\ Len(call[c].reqs) = 1
           /\ call[c].reqs[1].query = WithAuth(call[c].apiReq.values)

\* C23: a POST call whose descriptor fails validation returns before permit
\* acquisition: the step that starts it leaves the bucket and the queue of
\* waiting calls as they were and ends the call with the validation error,
\* no permit taken, no suspension and no request issued, whatever the
\* bucket holds and whether or not the context is already cancelled.
C23_InvalidPostSkipsLimiter ==
    [][\A c \in Calls :
          (/\ call[c].pc = "idle"
           /\ call'[c].pc # "idle"
           /\ call'[c].verb = MethodPost
           /\ validate(call'[c].apiReq) # NoErr)
          => /\ ratePerSecond' = ratePerSecond
             /\ recvq' = recvq
             /\ call'[c].pc = "done"
             /\ call'[c].err = validate(call'[c].apiReq)
             /\ call'[c].acquired = 0
             /\ ~call'[c].suspended
             /\ call'[c].reqs = <<>>]_vars

\* C23 witness: with the bucket empty and another call waiting, a POST with
\* an invalid descriptor and an already cancelled context has returned the
\* validation error, not the cancellation error.
C23_Witness ==
    /\ LimiterOn
    /\ ratePerSecond.len = 0
    /\ \E d \in Others : call[d].pc = "parked"
    /\ call[Subject].verb = MethodPost
    /\ call[Subject].ctxDone
    /\ call[Subject].pc = "done"
    /\ call[Subject].err \in ValidationErrs
    /\ call[Subject].acquired = 0
    /\ call[Subject].reqs = <<>>

\* C24: a call started with a context that is already cancelled, on a
\* limiter that has permits, fails with the cancellation error without
\* taking a permit and without issuing a request (stated for the calls that
\* pass the validation that precedes the limiter).
C24_Original ==
    [][\A c \in Calls :
          (/\ call[c].pc = "idle"
           /\ call'[c].pc # "idle"
           /\ call'[c].ctxDone
           /\ Before(call'[c]) = NoErr
           /\ ~ratePerSecond.isNil
           /\ ratePerSecond.len > 0)
          => /\ call'[c].pc = "done"
             /\ call'[c].err = ErrCanceled
             /\ call'[c].acquired = 0
             /\ call'[c].reqs = <<>>
             /\ ratePerSecond' = ratePerSecond]_vars

\* C27: with the limiter on, the token check comes after permit acquisition
\* for all three verbs: a call that has failed with the missing-token error
\* has taken exactly one permit (and may have waited for it) and issued no
\* request, so such calls drain the bucket.
C27_TokenCheckAfterPermit ==
    LimiterOn =>
        /\ \A c \in Calls :
              call[c].err = ErrTokenMissing =>
                  /\ call[c].verb \in Verbs
                  /\ call[c].pc = "done"
                  /\ call[c].acquired = 1
                  /\ call[c].reqs = <<>>
        /\ (token = "" /\ refills = 0) =>
              ratePerSecond.len =
                  requestsPerSecond
                    - Cardinality({c \in Calls : call[c].err = ErrTokenMissing})
                    - Cardinality({c \in Calls : call[c].acquired = 1
                                                   /\ call[c].err \in ValidationErrs})

\* C27 witness: on a client without token the bucket has been drained by
\* calls that failed with the missing-token error, one of which had to wait
\* for its permit, and a DELETE is among them.
C27_Witness ==
    /\ LimiterOn
    /\ token = ""
    /\ ratePerSecond.len = 0
    /\ \A c \in Calls : call[c].err = ErrTokenMissing /\ call[c].acquired = 1
    /\ \E c \in Calls : call[c].suspended
    /\ \E c \in Calls : call[c].verb = MethodDelete

\* C28: after construction with N > 0 the refill task first waits one full
\* second (N intervals) and only then ticks once per interval: while it
\* sleeps and during the whole first second no permit is added and the
\* permits handed out and left add up to N, so at most N calls are
\* admitted; a refill step comes no earlier than N + 1 intervals after
\* construction, and from then on at most one per interval.
C28_SleepThenTick ==
    LimiterOn =>
        /\ refill.pc = "sleep" => (refills = 0 /\ refill.tick = 0)
        /\ now <= requestsPerSecond =>
              /\ refills = 0
              /\ ratePerSecond.len + SumAcquired(MaxCalls) = requestsPerSecond
        /\ now > requestsPerSecond =>
              /\ refill.pc # "sleep"
              /\ refills <= now - requestsPerSecond

\* C28 witness: nobody waited; N calls were admitted in the first second
\* and the first refill step, N + 1 intervals after construction, has put
\* one permit back into the bucket.
C28_Witness ==
    /\ LimiterOn
    /\ now = requestsPerSecond + 1
    /\ refills = 1
    /\ refill.pc = "range"
    /\ SumAcquired(MaxCalls) = requestsPerSecond
    /\ ratePerSecond.len = 1
    /\ \A c \in Calls : ~call[c].suspended

\* The types of the flattener's type switch, and the numeric ones of them.
NumericTypes ==
    {"int", "int8", "int16", "int32", "int64",
     "uint", "uint8", "uint16", "uint32", "uint64", "float32", "float64"}
EmittedTypes == NumericTypes \cup {"[]byte", "string"}

C30_Original ==
    \A c \in Calls :
        (call[c].pc # "idle" /\ call[c].path = VenuePath) =>
            /\ MissingRequired(call[c].arg) =>
                  /\ call[c].pc = "done"
                  /\ call[c].err \in ValidationErrs
                  /\ call[c].reqs = <<>>
            /\ (~MissingRequired(call[c].arg) /\ call[c].reqs # <<>>) =>
                  call[c].reqs[1].body = call[c].arg

\* C26: permit acquisition always ends: with the limiter on, a fair refill
\* task and finitely many callers, every call that waits for a permit
\* eventually obtains one and goes on, or returns the cancellation error.
C26_AcquisitionEnds ==
    \A c \in Calls :
        (call[c].pc = "parked")
            ~> (call[c].pc # "parked"
                   /\ (call[c].acquired = 1 \/ call[c].err = ErrCanceled))

\* C26 witness: past the clock's horizon, of two calls that waited one has
\* obtained its permit and one has returned the cancellation error.
C26_Witness ==
    /\ LimiterOn
    /\ now = MaxTime
    /\ refills >= 1
    /\ \E c, d \in Calls :
          /\ call[c].suspended /\ call[c].acquired = 1 /\ call[c].err = NoErr
          /\ call[d].suspended /\ call[d].acquired = 0 /\ call[d].err = ErrCanceled

\* C25: slow consumers cannot stall the refill: the bucket never holds more
\* than N permits; the refill task is held back on its send only while the
\* bucket is full and nobody waits, with at most one tick kept for it; and
\* with a fair refill task an empty bucket eventually holds a permit again,
\* and a bucket that is not full eventually is.
C25_RefillNeverStalls ==
    /\ [](LimiterOn =>
            /\ ratePerSecond.len <= ratePerSecond.cap
            /\ ratePerSecond.cap = requestsPerSecond
            /\ refill.tick \in {0, 1}
            /\ refill.pc # "none"
            /\ refill.pc = "send" =>
                  (ratePerSecond.len = ratePerSecond.cap /\ recvq = <<>>))
    /\ (LimiterOn /\ ratePerSecond.len = 0) ~> (ratePerSecond.len > 0)
    /\ (LimiterOn /\ ratePerSecond.len < ratePerSecond.cap)
          ~> (ratePerSecond.len = ratePerSecond.cap)

\* C25 witness: permits were taken and put back, the bucket is full again,
\* and the refill task, with a further tick, is held back on its send.
C25_Witness ==
    /\ LimiterOn
    /\ SumAcquired(MaxCalls) >= 1
    /\ refills >= 1
    /\ ratePerSecond.len = ratePerSecond.cap
    /\ refill.pc = "send"

====
